---- MODULE Spec2Model ----
(***************************************************************************)
(* Year-progress wallpaper service (shazifadam/wallpaperpush).             *)
(*                                                                         *)
(*   api/wallpaper.js            the request handler (two revisions: with  *)
(*                               the text label, and overlay-only)         *)
(*   scripts/generate-overlays.js  the batch generator of day-001..365     *)
(*                                                                         *)
(* Time is counted in minutes since 1970-01-01T00:00Z instead of           *)
(* milliseconds (every instant the code builds is a whole minute), so the  *)
(* divisor 86400000 ms of the source is MS_PER_DAY = 1440 minutes here.    *)
(***************************************************************************)
EXTENDS Integers, Sequences, FiniteSets, TLC

VARIABLES
    localTZ,       \* the process's local time zone (TZ of the host), fixed
    now,           \* the current instant, what `new Date()` returns
    files,         \* public/overlays: file name -> raster content
    fontB64,       \* module variable _fontBase64 (NULL until loaded)
    fontReads,     \* how many times fs.readFileSync(FONT_PATH) has run
    calls,         \* handler invocations of this process, in arrival order,
                   \* each with its position (awaiting toBuffer, or done)
    libResolves,   \* whether the image library's toBuffer() resolves when
                   \* resize got an undefined width and height (fixed)
    day,           \* generator: loop variable of main()
    svg,           \* generator: the svg built in the current iteration
    dateStr,       \* calendar: the date argument under study
    tzArg,         \* calendar: the tz argument under study
    today,         \* calendar: <<result of parseDateInTz>>, <<>> before the call
    info           \* calendar: <<result of calcDateInfo or getDayOfYear>>

vars == <<localTZ, now, files, fontB64, fontReads, calls, libResolves, day, svg,
          dateStr, tzArg, today, info>>

ABSENT == "<absent>"     \* a query parameter that was not sent (undefined)
NULL   == "<null>"

(***************************************************************************)
(* JavaScript numbers and Dates.  A number is [nan, v]; a Date is its time *)
(* value [nan, t] with t in minutes since the epoch.                       *)
(***************************************************************************)
NaN == [nan |-> TRUE, v |-> 0]

\* undefined: NaN in arithmetic, "undefined" in a template string
Undefined == [nan |-> TRUE, v |-> 0, undef |-> TRUE]

Num(n) == [nan |-> FALSE, v |-> n]

\* String(x) of a number
NumToString(x) ==
    IF ~x.nan THEN ToString(x.v)
    ELSE IF "undef" \in DOMAIN x THEN "undefined" ELSE "NaN"

InvalidDate == [nan |-> TRUE, t |-> 0]

MS_PER_DAY == 1440

\* days since 1970-01-01 of the proleptic Gregorian date y-m-d (m in 1..12)
DaysFromCivil(y, m, d) ==
    LET yy  == IF m <= 2 THEN y - 1 ELSE y
        era == yy \div 400
        yoe == yy - era * 400
        mp  == IF m > 2 THEN m - 3 ELSE m + 9
        doy == (153 * mp + 2) \div 5 + d - 1
        doe == yoe * 365 + yoe \div 4 - yoe \div 100 + doy
    IN  era * 146097 + doe - 719468

\* the civil date of day number n (inverse of DaysFromCivil)
CivilFromDays(n) ==
    LET z   == n + 719468
        era == z \div 146097
        doe == z - era * 146097
        yoe == (doe - doe \div 1460 + doe \div 36524 - doe \div 146096) \div 365
        doy == doe - (365 * yoe + yoe \div 4 - yoe \div 100)
        mp  == (5 * doy + 2) \div 153
        d   == doy - (153 * mp + 2) \div 5 + 1
        m   == IF mp < 10 THEN mp + 3 ELSE mp - 9
        y   == yoe + era * 400 + (IF m <= 2 THEN 1 ELSE 0)
    IN  [y |-> y, m |-> m, d |-> d]

\* ECMAScript MakeDay(year, month, date): month is 0-based and may overflow
MakeDay(y, m0, d) ==
    DaysFromCivil(y + m0 \div 12, (m0 % 12) + 1, 1) + d - 1

(***************************************************************************)
(* Time zones, as the host and Intl know them: a standard offset and a DST *)
(* rule.  "north" is the United States rule of 2024 (Mar 10 02:00 to       *)
(* Nov 3 02:00), "south" the Australian one (first Sunday of October 02:00 *)
(* to first Sunday of April 03:00), both applied to every year.            *)
(***************************************************************************)
Zones ==
    "UTC"              :> [std |-> 0,    dst |-> "none"]  @@
    "Asia/Dubai"       :> [std |-> 240,  dst |-> "none"]  @@
    "America/New_York" :> [std |-> -300, dst |-> "north"] @@
    "Australia/Sydney" :> [std |-> 600,  dst |-> "south"]

ZoneNames == DOMAIN Zones

\* position of a local standard time inside its year: (month, day, minute)
YearPos(m, d, min) == (m * 32 + d) * MS_PER_DAY + min

\* whether DST is in force at UTC instant t in zone z
InDst(z, t) ==
    LET l   == t + z.std
        c   == CivilFromDays(l \div MS_PER_DAY)
        pos == YearPos(c.m, c.d, l % MS_PER_DAY)
    IN  CASE z.dst = "north" -> pos >= YearPos(3, 10, 120) /\ pos < YearPos(11, 3, 60)
          [] z.dst = "south" -> pos >= YearPos(10, 6, 120) \/ pos < YearPos(4, 7, 120)
          [] OTHER           -> FALSE

\* offset from UTC, in minutes, at UTC instant t
ZoneOffset(z, t) == z.std + (IF InDst(z, t) THEN 60 ELSE 0)

\* the UTC instant of local wall-clock time w (ECMAScript UTC(t))
LocalToUTC(z, w) ==
    IF InDst(z, w - (z.std + 60)) THEN w - (z.std + 60) ELSE w - z.std

\* the civil date shown by zone z at instant t
CivilIn(z, t) == CivilFromDays((t + ZoneOffset(z, t)) \div MS_PER_DAY)

(***************************************************************************)
(* Strings the code takes apart are sequences of one-character strings.    *)
(***************************************************************************)
DigitChars == <<"0", "1", "2", "3", "4", "5", "6", "7", "8", "9">>

DigitValue(c) == (CHOOSE i \in 1..10 : DigitChars[i] = c) - 1

IsDigit(c) == \E i \in 1..10 : DigitChars[i] = c

\* n written with exactly w decimal digits (zero-padded)
Digits(n, w) == [i \in 1..w |-> DigitChars[((n \div (10 ^ (w - i))) % 10) + 1]]

\* s.split(sep)
RECURSIVE Split(_, _)
Split(s, sep) ==
    IF \A i \in 1..Len(s) : s[i] # sep THEN <<s>>
    ELSE LET k == CHOOSE i \in 1..Len(s) :
                      s[i] = sep /\ \A j \in 1..(i - 1) : s[j] # sep
         IN  <<SubSeq(s, 1, k - 1)>> \o Split(SubSeq(s, k + 1, Len(s)), sep)

RECURSIVE DecimalValue(_)
DecimalValue(s) ==
    IF s = <<>> THEN 0
    ELSE 10 * DecimalValue(SubSeq(s, 1, Len(s) - 1)) + DigitValue(s[Len(s)])

\* Number(s) for a string of decimal digits; "" is 0, anything else here NaN
Number(s) ==
    IF \A i \in 1..Len(s) : IsDigit(s[i]) THEN Num(DecimalValue(s)) ELSE NaN

\* x - 1
Minus1(x) == IF x.nan THEN NaN ELSE Num(x.v - 1)

\* new Date(y, m0, d): local midnight of the host zone z; a year 0..99 means
\* 1900 + year; a NaN argument gives an Invalid Date
NewDateLocal(z, y, m0, d) ==
    IF y.nan \/ m0.nan \/ d.nan THEN InvalidDate
    ELSE LET yr == IF y.v \in 0..99 THEN 1900 + y.v ELSE y.v
         IN  [nan |-> FALSE, t |-> LocalToUTC(z, MakeDay(yr, m0.v, d.v) * MS_PER_DAY)]

\* new Date(Date.UTC(y, m0, d))
NewDateUTC(y, m0, d) == [nan |-> FALSE, t |-> MakeDay(y, m0, d) * MS_PER_DAY]

\* date.getFullYear(): the year of the date in the host zone z
getFullYear(z, date) == CivilIn(z, date.t).y

\* Intl.DateTimeFormat('en-CA', {timeZone, year: 'numeric', month: '2-digit',
\* day: '2-digit'}).formatToParts(t), as type -> value
formatToParts(zone, t) ==
    LET c == CivilIn(zone, t)
    IN  [year |-> Digits(c.y, 4), month |-> Digits(c.m, 2), day |-> Digits(c.d, 2)]

\* whether new Intl.DateTimeFormat accepts the timeZone (else RangeError)
ValidTimeZone(tz) == tz \in ZoneNames

(***************************************************************************)
(* api/wallpaper.js: date utilities.  z is the host zone record.           *)
(***************************************************************************)
\* a date string is a character sequence; an absent one and "" are both
\* falsy and both written NoDate
NoDate == <<>>

Truthy(s) == s # ABSENT /\ s # ""

\* parseDateInTz with the branches in the other order: a valid tz wins over
\* the date override
parseDateTzFirst(z, ds, tz, t) ==
    IF Truthy(tz) /\ ValidTimeZone(tz)
    THEN LET parts == formatToParts(Zones[tz], t)
         IN  NewDateLocal(z, Number(parts.year), Minus1(Number(parts.month)),
                          Number(parts.day))
    ELSE IF ds # NoDate
    THEN LET parts == Split(ds, "-")
             part(i) == IF i <= Len(parts) THEN Number(parts[i]) ELSE NaN
         IN  NewDateLocal(z, part(1), Minus1(part(2)), part(3))
    ELSE LET u == CivilFromDays(t \div MS_PER_DAY)
         IN  NewDateUTC(u.y, u.m - 1, u.d)

parseDateInTz(z, ds, tz, t) ==
    IF ds # NoDate
    THEN LET parts == Split(ds, "-")
             part(i) == IF i <= Len(parts) THEN Number(parts[i]) ELSE NaN
         IN  NewDateLocal(z, part(1), Minus1(part(2)), part(3))
    ELSE IF Truthy(tz) /\ ValidTimeZone(tz)
    THEN LET parts == formatToParts(Zones[tz], t)
         IN  NewDateLocal(z, Number(parts.year), Minus1(Number(parts.month)),
                          Number(parts.day))
    ELSE LET u == CivilFromDays(t \div MS_PER_DAY)
         IN  NewDateUTC(u.y, u.m - 1, u.d)

\* (x / y * 100).toFixed(1) for x >= 0, y > 0: the nearest tenth, as a string
ToFixed1(x, y) ==
    LET tenths == (2000 * x + y) \div (2 * y)
    IN  ToString(tenths \div 10) \o "." \o ToString(tenths % 10)

isLeapYear(year) == (year % 4 = 0 /\ year % 100 # 0) \/ year % 400 = 0

getDayOfYear(z, date) ==
    IF date.nan THEN NaN
    ELSE LET year == getFullYear(z, date)
             jan1 == NewDateLocal(z, Num(year), Num(0), Num(1))
         IN  Num((date.t - jan1.t) \div MS_PER_DAY + 1)

calcDateInfo(z, date) ==
    IF date.nan
    THEN [dayOfYear |-> NaN, daysLeft |-> NaN, percent |-> "NaN", daysInYear |-> 365]
    ELSE LET year       == getFullYear(z, date)
             daysInYear == IF isLeapYear(year) THEN 366 ELSE 365
             jan1       == NewDateLocal(z, Num(year), Num(0), Num(1))
             dayOfYear  == (date.t - jan1.t) \div MS_PER_DAY + 1
             dec31      == NewDateLocal(z, Num(year), Num(11), Num(31))
             daysLeft   == (dec31.t - date.t) \div MS_PER_DAY
         IN  [dayOfYear  |-> Num(dayOfYear),
              daysLeft   |-> Num(daysLeft),
              percent    |-> ToFixed1(dayOfYear, daysInYear),
              daysInYear |-> daysInYear]

(***************************************************************************)
(* Inputs.                                                                 *)
(***************************************************************************)
\* "YYYY-MM-DD"
DateString(y, m, d) == Digits(y, 4) \o <<"-">> \o Digits(m, 2) \o <<"-">> \o Digits(d, 2)

\* the instant y-m-d hh:mm UTC
Instant(y, m, d, hh, mm) == DaysFromCivil(y, m, d) * MS_PER_DAY + hh * 60 + mm

CalYears == {1900, 2000, 2023, 2024}

\* every civil date of CalYears
CalCivil ==
    {c \in [y : CalYears, m : 1..12, d : 1..31] :
        CivilFromDays(DaysFromCivil(c.y, c.m, c.d)) = c}

CalDates == {DateString(c.y, c.m, c.d) : c \in CalCivil}

TzArgs == {ABSENT, "Asia/Dubai", "America/New_York", "Invalid/Zone"}

CalInstants ==
    { Instant(2024, 12, 31, 22, 30), Instant(2024, 7, 1, 2, 0),
      Instant(2025, 1, 1, 3, 0), Instant(2023, 3, 1, 12, 0) }

(***************************************************************************)
(* The calendar functions on their own: one call of parseDateInTz, then    *)
(* one of calcDateInfo (text-label revision) or getDayOfYear (overlay-only *)
(* revision), in a process of any host zone.                               *)
(***************************************************************************)
Idle ==
    /\ files = <<>> /\ fontB64 = NULL /\ fontReads = 0 /\ calls = <<>>
    /\ libResolves = TRUE /\ day = 1 /\ svg = <<>>

InitCal ==
    /\ localTZ \in ZoneNames
    /\ now \in CalInstants
    /\ dateStr \in CalDates \cup {NoDate}
    /\ tzArg \in TzArgs
    /\ today = <<>>
    /\ info = <<>>
    /\ Idle

ResolveDate ==
    /\ today = <<>>
    /\ today' = <<parseDateInTz(Zones[localTZ], dateStr, tzArg, now)>>
    /\ UNCHANGED <<localTZ, now, files, fontB64, fontReads, calls, libResolves,
                   day, svg, dateStr, tzArg, info>>

CalcDateInfo ==
    /\ today # <<>> /\ info = <<>>
    /\ info' = <<[fn |-> "calcDateInfo", r |-> calcDateInfo(Zones[localTZ], today[1])]>>
    /\ UNCHANGED <<localTZ, now, files, fontB64, fontReads, calls, libResolves,
                   day, svg, dateStr, tzArg, today>>

GetDayOfYear ==
    /\ today # <<>> /\ info = <<>>
    /\ info' = <<[fn |-> "getDayOfYear",
                  r  |-> [dayOfYear |-> getDayOfYear(Zones[localTZ], today[1])]]>>
    /\ UNCHANGED <<localTZ, now, files, fontB64, fontReads, calls, libResolves,
                   day, svg, dateStr, tzArg, today>>

NextCal == ResolveDate \/ CalcDateInfo \/ GetDayOfYear

SpecCal == InitCal /\ [][NextCal]_vars

(***************************************************************************)
(* scripts/generate-overlays.js (the revision that composites the grid     *)
(* over background.png; the white-canvas revision differs in geometry and  *)
(* colours only).                                                          *)
(***************************************************************************)
WIDTH == 1290

HEIGHT == 2796

COLS == 20

TOTAL_DOTS == 365

\* Math.ceil(TOTAL_DOTS / COLS)
ROWS == (TOTAL_DOTS + COLS - 1) \div COLS

MARGIN_LEFT == 159

MARGIN_RIGHT == 159

GRID_TOP == 1100

GRID_HEIGHT == 704

GRID_W == WIDTH - MARGIN_LEFT - MARGIN_RIGHT

\* Math.round(a / b) for a >= 0, b > 0
Round(a, b) == (2 * a + b) \div (2 * b)

H_SPACING == Round(GRID_W, COLS - 1)

V_SPACING == Round(GRID_HEIGHT, ROWS - 1)

\* buildDotGridSVG with `i <= filledCount` for `i < filledCount`
buildDotGridSVGInclusive(filledCount) ==
    [k \in 1..TOTAL_DOTS |->
        LET i   == k - 1
            col == i % COLS
            row == i \div COLS
        IN  [cx     |-> MARGIN_LEFT + col * H_SPACING,
             cy     |-> GRID_TOP + row * V_SPACING,
             filled |-> i <= filledCount]]

\* the circles of the svg, in the order they are pushed (index i + 1 is dot i)
buildDotGridSVG(filledCount) ==
    [k \in 1..TOTAL_DOTS |->
        LET i   == k - 1
            col == i % COLS
            row == i \div COLS
        IN  [cx     |-> MARGIN_LEFT + col * H_SPACING,
             cy     |-> GRID_TOP + row * V_SPACING,
             filled |-> i < filledCount]]

\* String(s).padStart(n, '0')
RECURSIVE padStart(_, _)
padStart(s, n) == IF Len(s) >= n THEN s ELSE padStart("0" \o s, n)

\* `day-${String(n).padStart(3, '0')}.png` for a number n
DayFile(n) == "day-" \o padStart(NumToString(n), 3) \o ".png"

\* what sharp writes for an svg over the background: the raster, known by
\* the number of its dots that are filled
Raster(circles) == Cardinality({k \in 1..Len(circles) : circles[k].filled})

\* one iteration of the loop of main(): build, composite, write the file
mainStep ==
    /\ day <= TOTAL_DOTS
    /\ svg' = buildDotGridSVG(day)
    /\ files' = [f \in DOMAIN files \cup {DayFile(Num(day))} |->
                    IF f = DayFile(Num(day)) THEN Raster(svg') ELSE files[f]]
    /\ day' = day + 1
    /\ UNCHANGED <<localTZ, now, fontB64, fontReads, calls, libResolves,
                   dateStr, tzArg, today, info>>

InitGen ==
    /\ localTZ = "UTC"
    /\ now = Instant(2024, 12, 31, 22, 30)
    /\ files = <<>>
    /\ day = 1
    /\ svg = <<>>
    /\ fontB64 = NULL /\ fontReads = 0 /\ calls = <<>> /\ libResolves = TRUE
    /\ dateStr = NoDate /\ tzArg = ABSENT /\ today = <<>> /\ info = <<>>

NextGen == mainStep

SpecGen == InitGen /\ [][NextGen]_vars

\* public/overlays after the first k iterations of main()
GeneratedUpTo(k) ==
    [f \in {DayFile(Num(d)) : d \in 1..k} |->
        Raster(buildDotGridSVG(CHOOSE d \in 1..k : DayFile(Num(d)) = f))]

(***************************************************************************)
(* api/wallpaper.js: the handler.                                          *)
(***************************************************************************)
RESOLUTIONS ==
    "iphone16pro" :> [width |-> 1290, height |-> 2796] @@
    "iphone15"    :> [width |-> 1179, height |-> 2556] @@
    "iphone14pro" :> [width |-> 1290, height |-> 2796] @@
    "iphone13"    :> [width |-> 1170, height |-> 2532] @@
    "default"     :> [width |-> 1290, height |-> 2796]

\* RESOLUTIONS is an object literal: what it does not own it inherits from
\* Object.prototype, whose properties are functions and objects (truthy)
ObjectPrototypeKeys ==
    { "constructor", "toString", "toLocaleString", "valueOf", "hasOwnProperty",
      "isPrototypeOf", "propertyIsEnumerable", "__proto__" }

\* RESOLUTIONS[model] followed by `const { width, height } = resolution`:
\* found says whether the value is truthy; an inherited value has neither
\* a width nor a height
Resolve(model) ==
    IF model \in DOMAIN RESOLUTIONS
    THEN [found |-> TRUE, width |-> Num(RESOLUTIONS[model].width),
          height |-> Num(RESOLUTIONS[model].height)]
    ELSE IF model \in ObjectPrototypeKeys
    THEN [found |-> TRUE, width |-> Undefined, height |-> Undefined]
    ELSE [found |-> FALSE, width |-> Undefined, height |-> Undefined]

\* public/fonts/SF-Pro-Display-Regular.otf, base64-encoded
FONT_FILE == "T1RUTwAMAIAAAwBAQ0ZGIA=="

\* getFontBase64 without the assignment to _fontBase64
getFontBase64NoStore(cache) ==
    IF cache = NULL \/ cache = ""
    THEN [value |-> FONT_FILE, cache |-> cache, reads |-> 1]
    ELSE [value |-> cache, cache |-> cache, reads |-> 0]

\* getFontBase64 returning the cache as it was before the load
getFontBase64StaleReturn(cache) ==
    IF cache = NULL \/ cache = ""
    THEN [value |-> "", cache |-> FONT_FILE, reads |-> 1]
    ELSE [value |-> cache, cache |-> cache, reads |-> 0]

\* getFontBase64() with _fontBase64 = cache: the value returned, the cache
\* afterwards and the number of file reads made
getFontBase64(cache) ==
    IF cache = NULL \/ cache = ""
    THEN [value |-> FONT_FILE, cache |-> FONT_FILE, reads |-> 1]
    ELSE [value |-> cache, cache |-> cache, reads |-> 0]

\* Math.round(a * b / c) of JS numbers, as a JS number
RoundMul(x, a, c) == IF x.nan THEN NaN ELSE Num(Round(x.v * a, c))

\* the text layer; the separator of the label is U+2022 in the source
buildTextSvg(width, height, daysLeft, percent, fontBase64) ==
    [width      |-> NumToString(width),
     height     |-> NumToString(height),
     text       |-> NumToString(daysLeft) \o " Days Left  (*)  " \o percent \o "%",
     fontSize   |-> RoundMul(width, 52, 1290),
     textY      |-> RoundMul(height, 91, 100),
     shadowBlur |-> RoundMul(width, 8, 1290),
     x          |-> RoundMul(width, 1, 2),
     font       |-> fontBase64]

NoSvg == <<>>

NoRaster == -1

\* the response of a request that was answered with res.status(n).json(...)
JsonResponse(n) ==
    [status |-> n, type |-> "application/json", overlay |-> "", raster |-> NoRaster,
     width |-> 0, height |-> 0, textSvg |-> NoSvg,
     dayOfYear |-> "", daysLeft |-> "", percent |-> ""]

\* step 3: the metrics of the revision with the text label (calcDateInfo),
\* or the day of the year alone (overlay-only revision)
Metrics(text, z, date) ==
    IF text THEN calcDateInfo(z, date)
    ELSE [dayOfYear |-> getDayOfYear(z, date), daysLeft |-> NaN,
          percent |-> "", daysInYear |-> 0]

\* step 4: the exact day file if fs.existsSync finds it, else day-365.png
SelectOverlay(store, dayFile) ==
    IF dayFile \in DOMAIN store THEN dayFile ELSE "day-365.png"

\* steps 5-6 and the response they prepare: the call as it stands when the
\* handler suspends at `await pipeline.toBuffer()` (pc "await?" when resize
\* was given an undefined width and height, where the image library decides
\* whether toBuffer resolves)
Compose(text, req, t, resolution, inf, overlay, store, font) ==
    [req  |-> req, at |-> t, text |-> text,
     dayFile |-> DayFile(inf.dayOfYear),
     pc   |-> IF resolution.width.nan THEN "await?" ELSE "await",
     work |-> {"date", "probe", "resize", "encode"} \cup
              (IF text THEN {"font", "composite"} ELSE {}),
     res  |-> [status    |-> 200,
               type      |-> IF req.format = "png" THEN "image/png" ELSE "image/jpeg",
               overlay   |-> overlay,
               raster    |-> store[overlay],
               width     |-> IF resolution.width.nan THEN WIDTH ELSE resolution.width.v,
               height    |-> IF resolution.height.nan THEN HEIGHT ELSE resolution.height.v,
               textSvg   |-> IF text
                             THEN buildTextSvg(resolution.width, resolution.height,
                                               inf.daysLeft, inf.percent, font.value)
                             ELSE NoSvg,
               dayOfYear |-> NumToString(inf.dayOfYear),
               daysLeft  |-> IF text THEN NumToString(inf.daysLeft) ELSE "",
               percent   |-> inf.percent]]

\* a call answered with res.status(n).json(...) before any await; dayFile is
\* the file name step 4 built, "" when the handler returned before it
Refuse(text, req, t, n, dayFile, work) ==
    [req |-> req, at |-> t, text |-> text, dayFile |-> dayFile, pc |-> "done",
     work |-> work, res |-> JsonResponse(n)]

\* handlerSync with step 5 (the font load) moved before the second
\* fs.existsSync of step 4
handlerSyncFontFirst(text, req, t, resolution, inf, overlay, store, cache, font) ==
    IF ~resolution.found
    THEN [call |-> Refuse(text, req, t, 400, "", {}), cache |-> cache, reads |-> 0]
    ELSE IF overlay \notin DOMAIN store
    THEN [call  |-> Refuse(text, req, t, 500, DayFile(inf.dayOfYear),
                           {"date", "probe"} \cup (IF text THEN {"font"} ELSE {})),
          cache |-> IF text THEN font.cache ELSE cache,
          reads |-> IF text THEN font.reads ELSE 0]
    ELSE [call  |-> Compose(text, req, t, resolution, inf, overlay, store, font),
          cache |-> IF text THEN font.cache ELSE cache,
          reads |-> IF text THEN font.reads ELSE 0]

\* the handler from its entry to its first await or its return, given what
\* its steps computed: the call, the font cache afterwards and the font
\* file reads made.  Step 2 returns before steps 3-5 run, step 4 before
\* step 5.
handlerSync(text, req, t, resolution, inf, overlay, store, cache, font) ==
    IF ~resolution.found
    THEN [call |-> Refuse(text, req, t, 400, "", {}), cache |-> cache, reads |-> 0]
    ELSE IF overlay \notin DOMAIN store
    THEN [call |-> Refuse(text, req, t, 500, DayFile(inf.dayOfYear), {"date", "probe"}),
          cache |-> cache, reads |-> 0]
    ELSE [call  |-> Compose(text, req, t, resolution, inf, overlay, store, font),
          cache |-> IF text THEN font.cache ELSE cache,
          reads |-> IF text THEN font.reads ELSE 0]

(***************************************************************************)
(* The serving process.                                                    *)
(***************************************************************************)
MaxCalls == 2

Models == {ABSENT, "iphone13", "unknownmodel", "constructor"}

Dates == {NoDate, DateString(2024, 12, 31), DateString(2023, 3, 1)}

Formats == {ABSENT, "png"}

Tzs == {ABSENT, "Asia/Dubai", "Invalid/Zone"}

\* every model alone, every format alone, and every date with every tz
Requests ==
    [model : Models, date : {NoDate}, format : {ABSENT}, tz : {ABSENT}] \cup
    [model : {ABSENT}, date : {NoDate}, format : Formats, tz : {ABSENT}] \cup
    [model : {ABSENT}, date : Dates, format : {ABSENT}, tz : Tzs]

\* the instants at which requests arrive, in order
Instants == <<Instant(2024, 12, 31, 22, 30), Instant(2025, 1, 1, 3, 0)>>

HostZones == {"UTC", "America/New_York", "Australia/Sydney"}

\* the asset store: never generated, generation interrupted, complete
PartialDays == 200

Stores == {GeneratedUpTo(0), GeneratedUpTo(PartialDays), GeneratedUpTo(TOTAL_DOTS)}

Init ==
    /\ localTZ \in HostZones
    /\ now = Instants[1]
    /\ files \in Stores
    /\ fontB64 = NULL
    /\ fontReads = 0
    /\ calls = <<>>
    /\ libResolves \in BOOLEAN
    /\ day = TOTAL_DOTS + 1 /\ svg = <<>>
    /\ dateStr = NoDate /\ tzArg = ABSENT /\ today = <<>> /\ info = <<>>

\* a request arrives and the handler runs until it returns or awaits
Serve(text, req) ==
    /\ Len(calls) < MaxCalls
    /\ \A i \in 1..Len(calls) : calls[i].text = text
    /\ \E resolution \in {Resolve(IF req.model = ABSENT THEN "default" ELSE req.model)} :
       \E date \in {parseDateInTz(Zones[localTZ], req.date, req.tz, now)} :
       \E inf \in {Metrics(text, Zones[localTZ], date)} :
       \E overlay \in {SelectOverlay(files, DayFile(inf.dayOfYear))} :
       \E font \in {getFontBase64(fontB64)} :
       \E h \in {handlerSync(text, req, now, resolution, inf, overlay, files,
                             fontB64, font)} :
          /\ calls' = Append(calls, h.call)
          /\ fontB64' = h.cache
          /\ fontReads' = fontReads + h.reads
    /\ UNCHANGED <<localTZ, now, files, libResolves, day, svg, dateStr, tzArg,
                   today, info>>

\* the revision with the text label
handler == \E req \in Requests : Serve(TRUE, req)

\* the overlay-only revision
handlerOverlayOnly == \E req \in Requests : Serve(FALSE, req)

\* pipeline.toBuffer() resolves: headers, res.status(200).end(imageBuffer)
toBufferResolves ==
    \E i \in 1..Len(calls) :
        /\ calls[i].pc = "await" \/ (calls[i].pc = "await?" /\ libResolves)
        /\ calls' = [calls EXCEPT ![i].pc = "done"]
        /\ UNCHANGED <<localTZ, now, files, fontB64, fontReads, libResolves, day, svg,
                       dateStr, tzArg, today, info>>

\* pipeline.toBuffer() rejects: the catch block answers 500
toBufferRejects ==
    \E i \in 1..Len(calls) :
        /\ calls[i].pc = "await?" /\ ~libResolves
        /\ calls' = [calls EXCEPT ![i].pc = "done", ![i].res = JsonResponse(500)]
        /\ UNCHANGED <<localTZ, now, files, fontB64, fontReads, libResolves, day, svg,
                       dateStr, tzArg, today, info>>

\* time passes
Tick ==
    /\ \E k \in 1..(Len(Instants) - 1) : now = Instants[k] /\ now' = Instants[k + 1]
    /\ UNCHANGED <<localTZ, files, fontB64, fontReads, calls, libResolves, day, svg,
                   dateStr, tzArg, today, info>>

Next == handler \/ handlerOverlayOnly \/ toBufferResolves \/ toBufferRejects \/ Tick

Spec == Init /\ [][Next]_vars

(***************************************************************************)
(* The asset selection of step 4, over requests whose date parameter need  *)
(* not be a date: req.query.date is any string the client sends.           *)
(***************************************************************************)
\* `date=today`: split('-').map(Number) gives [NaN], new Date(NaN, ...) is
\* an Invalid Date
NotADate == <<"t", "o", "d", "a", "y">>

ProbeDates ==
    {NoDate, NotADate, DateString(2024, 12, 31), DateString(2023, 3, 1),
     DateString(2023, 10, 27)}

ProbeRequests ==
    [model : {ABSENT, "iphone13"}, date : ProbeDates, format : {ABSENT}, tz : {ABSENT}]

InitProbe ==
    /\ localTZ \in HostZones
    /\ now = Instants[1]
    /\ files \in Stores
    /\ fontB64 = NULL
    /\ fontReads = 0
    /\ calls = <<>>
    /\ libResolves = TRUE
    /\ day = TOTAL_DOTS + 1 /\ svg = <<>>
    /\ dateStr = NoDate /\ tzArg = ABSENT /\ today = <<>> /\ info = <<>>

handlerProbe == \E req \in ProbeRequests : Serve(TRUE, req)

handlerOverlayOnlyProbe == \E req \in ProbeRequests : Serve(FALSE, req)

NextProbe == handlerProbe \/ handlerOverlayOnlyProbe \/ toBufferResolves \/ Tick

SpecProbe == InitProbe /\ [][NextProbe]_vars

(***************************************************************************)
(* The calendar, as the claims state it.                                   *)
(***************************************************************************)
ClaimDaysInYear(Y) ==
    IF Y % 4 = 0 /\ (Y % 100 # 0 \/ Y % 400 = 0) THEN 366 ELSE 365

MonthLength(Y, m) ==
    CASE m \in {4, 6, 9, 11} -> 30
      [] m = 2              -> 28 + (ClaimDaysInYear(Y) - 365)
      [] OTHER              -> 31

RECURSIVE DaysBeforeMonth(_, _)
DaysBeforeMonth(Y, m) ==
    IF m = 1 THEN 0 ELSE DaysBeforeMonth(Y, m - 1) + MonthLength(Y, m - 1)

\* the 1-based calendar ordinal of Y-m-d
Ordinal(Y, m, d) == DaysBeforeMonth(Y, m) + d

\* the year, month and day a "YYYY-MM-DD" string names
YearOf(ds)  == DecimalValue(SubSeq(ds, 1, 4))

MonthOf(ds) == DecimalValue(SubSeq(ds, 6, 7))

DayOf(ds)   == DecimalValue(SubSeq(ds, 9, 10))

\* the UTC civil date of the current instant
UtcToday == CivilFromDays(now \div MS_PER_DAY)

\* C1: for a date override naming a valid civil date, in any host zone,
\* calcDateInfo and getDayOfYear return the calendar ordinal of that date
\* (1 for Jan 1, daysInYear(Y) for Dec 31, with the Gregorian leap rule).
C1_DayOfYearIsOrdinal ==
    (info # <<>> /\ dateStr # NoDate) =>
        info[1].r.dayOfYear =
            Num(Ordinal(YearOf(dateStr), MonthOf(dateStr), DayOf(dateStr)))

\* C2: for every date the resolver produces, calcDateInfo returns
\* daysLeft = daysInYear - dayOfYear.
C2_DaysLeftComplement ==
    (info # <<>> /\ info[1].fn = "calcDateInfo") =>
        /\ ~info[1].r.dayOfYear.nan /\ ~info[1].r.daysLeft.nan
        /\ info[1].r.dayOfYear.v + info[1].r.daysLeft.v = info[1].r.daysInYear

\* C5: with no date override and a tz that is absent or invalid, the
\* metrics are those of the UTC civil date of the current instant, in any
\* host zone: the year is the UTC year and dayOfYear its calendar ordinal.
C5_BadTzMeansUtcToday ==
    (info # <<>> /\ dateStr = NoDate /\ ~(Truthy(tzArg) /\ ValidTimeZone(tzArg))) =>
        /\ ~today[1].nan
        /\ getFullYear(Zones[localTZ], today[1]) = UtcToday.y
        /\ info[1].r.dayOfYear = Num(Ordinal(UtcToday.y, UtcToday.m, UtcToday.d))

(***************************************************************************)
(* The serving process, as the claims state it.                            *)
(***************************************************************************)
Calls == {calls[i] : i \in 1..Len(calls)}

Answered == {c \in Calls : c.pc = "done"}

RenderingWork == {"font", "resize", "composite", "encode"}

\* the store the generator leaves: day-001..day-365 and no day-366
CompleteStore ==
    /\ Cardinality(DOMAIN files) = TOTAL_DOTS
    /\ "day-365.png" \in DOMAIN files
    /\ "day-366.png" \notin DOMAIN files

\* the call built a file name and neither it nor day-365.png exists
NoAsset(c) ==
    /\ c.dayFile # ""
    /\ c.dayFile \notin DOMAIN files
    /\ "day-365.png" \notin DOMAIN files

\* C3: with day-001..day-365 present and no day-366, a request for a
\* device of the table that resolves to dayOfYear 366 is answered 200 with
\* the raster of day-365.png and the metadata dayOfYear 366, daysLeft 0,
\* percentElapsed "100.0".
C3_Day366ServedFrom365 ==
    CompleteStore =>
        \A c \in Answered :
            (c.dayFile = "day-366.png" /\ Resolve(c.req.model).found
                                       /\ c.req.model \notin ObjectPrototypeKeys) =>
                /\ c.res.status = 200
                /\ c.res.overlay = "day-365.png"
                /\ c.res.raster = files["day-365.png"]
                /\ c.res.dayOfYear = "366"
                /\ c.text => (c.res.daysLeft = "0" /\ c.res.percent = "100.0")

\* C4: a model that is not a key of the table is answered 400 with no image
\* and before any other work; an absent model gets the 1290x2796 profile.
C4_UnknownModelRefused ==
    \A c \in Calls :
        /\ (c.req.model # ABSENT /\ c.req.model \notin DOMAIN RESOLUTIONS) =>
               /\ c.pc = "done"
               /\ c.res = JsonResponse(400)
               /\ c.work = {}
        /\ (c.req.model = ABSENT /\ c.res.status = 200) =>
               (c.res.width = 1290 /\ c.res.height = 2796)

\* C6: when neither the file of the resolved day nor day-365.png exists the
\* handler answers 500 at once, with no image and no font load, resize,
\* composite or encode; the font cache stays as it was.
C6_NoAssetIsServerError ==
    /\ \A c \in Calls :
          NoAsset(c) =>
              /\ c.pc = "done"
              /\ c.res = JsonResponse(500)
              /\ c.work \cap RenderingWork = {}
    /\ (\A c \in Calls : NoAsset(c)) => (fontReads = 0 /\ fontB64 = NULL)

C6_Witness ==
    \E c \in Answered :
        /\ c.text /\ c.dayFile = "day-366.png"
        /\ NoAsset(c)
        /\ DOMAIN files # {}
        /\ c.res.status = 500 /\ fontReads = 0

\* C7: with a date override the answer depends on model, date and format
\* only: two requests that agree on them get the same answer whatever
\* their tz and whenever they arrive.
C7_DateOverridesTzAndClock ==
    \A c1, c2 \in Answered :
        (/\ c1.req.date # NoDate
         /\ c1.req.date = c2.req.date
         /\ c1.req.model = c2.req.model
         /\ c1.req.format = c2.req.format) => c1.res = c2.res

C7_Witness ==
    \E c1, c2 \in Answered :
        /\ c1.req.date = DateString(2024, 12, 31) /\ c2.req.date = c1.req.date
        /\ c1.req.tz = "Asia/Dubai" /\ c2.req.tz = "Invalid/Zone"
        /\ c1.at # c2.at
        /\ c1.text /\ c1.res.status = 200 /\ c2.res.status = 200

\* C8 as stated: the same request, issued twice, gets the same answer.
C8_SameRequestSameAnswer ==
    \A c1, c2 \in Answered : c1.req = c2.req => c1.res = c2.res

\* C8 as amended: the same request, issued twice, gets the same answer when
\* it carries a date override or both arrive at the same instant.
C8_SameRequestSameInstantSameAnswer ==
    \A c1, c2 \in Answered :
        (c1.req = c2.req /\ (c1.req.date # NoDate \/ c1.at = c2.at)) => c1.res = c2.res

C8_Witness ==
    /\ Len(calls) = 2 /\ calls[1].pc = "done" /\ calls[2].pc = "done"
    /\ calls[1].req = calls[2].req
    /\ calls[1].req.date = NoDate /\ calls[1].req.tz = "Asia/Dubai"
    /\ calls[1].at = calls[2].at
    /\ calls[1].text /\ calls[1].res.status = 200
    /\ fontReads = 1

ThreeDigitName(d) ==
    "day-" \o ToString(d \div 100) \o ToString((d \div 10) % 10)
           \o ToString(d % 10) \o ".png"

\* an svg of 365 dots, row-major in rows of 20, dot i filled iff i < f
GridOf(circles, f) ==
    /\ Len(circles) = 365
    /\ \A i \in 0..364 :
          /\ circles[i + 1].filled <=> i < f
          /\ circles[i + 1].cx = MARGIN_LEFT + (i % 20) * H_SPACING
          /\ circles[i + 1].cy = GRID_TOP + (i \div 20) * V_SPACING

\* C9: buildDotGridSVG(f) emits 365 dots, dot i filled iff i < f (none for
\* f = 0, all for f = 365); main() builds day 1..365 in order and writes
\* day d, with exactly d filled dots, under day-ddd; no day 366 is written.
C9_GridAndGenerator ==
    /\ \A f \in {0, day - 1, day, TOTAL_DOTS} : GridOf(buildDotGridSVG(f), f)
    /\ day \in 1..(TOTAL_DOTS + 1)
    /\ day > 1 => svg = buildDotGridSVG(day - 1)
    /\ DOMAIN files = {ThreeDigitName(d) : d \in 1..(day - 1)}
    /\ \A d \in 1..(day - 1) : files[ThreeDigitName(d)] = d
    /\ ThreeDigitName(366) \notin DOMAIN files

C9_Witness ==
    /\ day = TOTAL_DOTS + 1
    /\ Cardinality(DOMAIN files) = 365
    /\ files["day-001.png"] = 1 /\ files["day-365.png"] = 365
    /\ Raster(svg) = 365

(***************************************************************************)
(* The fallback, as the claims state it.                                   *)
(***************************************************************************)
\* the dayOfYear step 3 computed for the call
DayOfYearOf(c) ==
    Metrics(c.text, Zones[localTZ],
            parseDateInTz(Zones[localTZ], c.req.date, c.req.tz, c.at)).dayOfYear

\* the rule `substitute day-365 iff dayOfYear > 365` (NaN > 365 is false)
RuleOverlay(d) ==
    IF ~d.nan /\ d.v > 365 THEN "day-365.png" ELSE DayFile(d)

\* C11: the fallback by filesystem probe is equivalent to the rule
\* `substitute day-365 iff dayOfYear > 365`: for every request that passes
\* the model check and every store, both select the same asset and give the
\* same status, and day-365 is substituted only when dayOfYear = 366.
C11_ProbeEquivalentToRule ==
    \A c \in Answered :
        c.dayFile # "" =>
            /\ (c.res.status = 200) <=> (RuleOverlay(DayOfYearOf(c)) \in DOMAIN files)
            /\ (c.res.status = 200) => (c.res.overlay = RuleOverlay(DayOfYearOf(c)))
            /\ (c.res.status = 200 /\ c.res.overlay # c.dayFile) =>
                   DayOfYearOf(c) = Num(366)

====
